---- MODULE Spec2Model ----
(***************************************************************************)
(* Batched, resumable Telegram transfers: uploader.py,                     *)
(* uploader_multi_session.py and downloder.py.  Each program loads a JSON  *)
(* state file, filters the candidates already recorded in it, runs the     *)
(* remaining ones in batches with asyncio.gather and saves the state file  *)
(* after every batch.                                                      *)
(***************************************************************************)
EXTENDS Integers, Sequences, FiniteSets, TLC

\* ------------------------------------------------------------------ bounds
NItems == 3      \* identifiers 1..NItems (file paths / message ids)
MaxLen == 3      \* longest candidate list
MaxBatch == 2    \* largest BATCH_SIZE of uploader.py / downloder.py

\* batch_size hard-wired by uploader_multi_session.py main()
MultiBatchSize == 5

Items == 1..NItems
Progs == {"uploader", "multi", "downloader"}

VARIABLES
    prog,                \* which script runs: a transfer program or "session_manager"
    batch_size,          \* BATCH_SIZE
    candidates,          \* files of the folder / media messages of the channel
    disk,                \* the state file <folder>/upload_state.json | download_state.json
    folder,              \* names of the files present in the download folder
    entry,               \* "main": a run of the script; "call": the batch runner called alone
    phase,               \* "idle" | "loop" | "gather" | "done"
    ret,                 \* how the last run ended
    store,               \* uploaded_files / downloaded_ids (in memory)
    pre,                 \* the store as loaded at the start of the run
    files,               \* candidates left after filtering
    already,             \* already_uploaded / already_downloaded
    i,                   \* loop index of enumerate(files, 1)
    tasks,               \* the coroutines of the current batch
    successful_uploads,
    failed_uploads,
    attempts,            \* per identifier: calls of send_file / download_media in this run
    saves,               \* calls of save_*_state in this run
    lastSave,            \* outcome of the last save of this run
    log,                 \* outcome of every settled task of this run, in input order
    prev,                \* how the previous run ended
    lost,                \* identifiers the previous run had in its store and the
                         \* state file this run loaded has not
    \* session_manager.py: the SessionManager object and the files it works on
    sessions,            \* self.sessions: name -> SessionInfo
    current_session,     \* self.current_session, "None" for None
    config,              \* the file sessions_config.json
    session_files,       \* names whose sessions/<name>.session file exists
    clock,               \* asyncio.get_event_loop().time()
    call,                \* the last method call: what it was, how it went, what it returned
    \* get_files_from_folder: its two arguments and the list it returned
    tree,                \* the directory folder_path names
    file_types,          \* the extensions asked for
    listing              \* the list returned

batchVars == <<prog, batch_size, candidates, disk, folder, entry, phase, ret, store, pre,
               files, already, i, tasks, successful_uploads, failed_uploads, attempts,
               saves, lastSave, log, prev, lost>>

regVars == <<sessions, current_session, config, session_files, clock, call>>

catVars == <<tree, file_types, listing>>

vars == <<batchVars, regVars, catVars>>

\* ------------------------------------------------------------ pure helpers
Range(s) == {s[k] : k \in DOMAIN s}

Min(S) == CHOOSE x \in S : \A y \in S : x <= y

RECURSIVE SetToSeq(_)
\* list(a_set): some enumeration of the set, here by increasing identifier
SetToSeq(S) == IF S = {} THEN <<>> ELSE <<Min(S)>> \o SetToSeq(S \ {Min(S)})

Ceil(n, d) == (n + d - 1) \div d

Count(s, P(_)) == Cardinality({k \in DOMAIN s : P(s[k])})

\* ------------------------------------------------------------- state file
AbsentFile == [kind |-> "absent", ids |-> <<>>]
MalformedFile == [kind |-> "malformed", ids |-> <<>>]
JsonFile(seq) == [kind |-> "json", ids |-> seq]
\* a file holding JSON that is no list, e.g. a number
ScalarFile == [kind |-> "scalar", ids |-> <<>>]

\* the exception classes met here, all subclasses of Exception
Exceptions == {"FileNotFoundError", "JSONDecodeError", "TypeError", "OSError"}

\* an exception leaves a try statement when no except clause matches it
Propagates(e, handled) == e # "none" /\ e \notin handled

\* save_upload_state / save_download_state: json.dump(list(ids)) into open(path, 'w');
\* any exception is swallowed.  "open_fails" leaves the old file, "write_fails"
\* leaves the file truncated by open().
SaveOutcomes == {"ok", "open_fails", "write_fails"}

\* what open(path, 'w') + json.dump raise
save_error(outcome) == IF outcome = "ok" THEN "none" ELSE "OSError"

\* variant: the saves without their try/except
SaveHandled_Nothing == {}

\* save_upload_state, save_download_state and save_sessions: `except Exception`
SaveHandled == Exceptions

\* the exception of a failed save reaches the caller of the save
save_raises(outcome) == Propagates(save_error(outcome), SaveHandled)

\* what `with open(state_file, 'r') as f: set(json.load(f))` raises
json_load(file) ==
    CASE file.kind = "absent" -> "FileNotFoundError"
      [] file.kind = "malformed" -> "JSONDecodeError"
      [] file.kind = "scalar" -> "TypeError"
      [] OTHER -> "none"

\* variant: load_*_state without its `except Exception`
LoadHandled_NotFoundOnly == {"FileNotFoundError"}

\* load_*_state: `except FileNotFoundError` and `except Exception`
LoadHandled == Exceptions

\* load_upload_state / load_download_state: set(json.load(f)); FileNotFoundError and
\* every other exception give set()
load_state(file) == IF json_load(file) = "none" THEN Range(file.ids) ELSE {}

\* variant: the save keeps what the file held
save_state_merge(ids, old, outcome) ==
    CASE outcome = "ok" -> JsonFile(SetToSeq(ids \cup load_state(old)))
      [] outcome = "open_fails" -> old
      [] OTHER -> MalformedFile

\* save_upload_state / save_download_state: json.dump(list(ids), f) into
\* open(state_file, 'w')
save_state(ids, old, outcome) ==
    CASE outcome = "ok" -> JsonFile(SetToSeq(ids))
      [] outcome = "open_fails" -> old
      [] OTHER -> MalformedFile

\* ------------------------------------------------------- downloader naming
\* DocumentAttributeFilename of a message, 0 when it has none: messages 1 and 2
\* carry the same original file name, the others carry none.
OriginalName(m) == IF m <= 2 THEN 1 ELSE 0

\* get_filename_from_message: the original file name when known, else a name
\* generated from the message id
get_filename_from_message(m) ==
    IF OriginalName(m) # 0
    THEN [kind |-> "original", n |-> OriginalName(m)]
    ELSE [kind |-> "generated", n |-> m]

\* is_file_already_downloaded: os.path.exists(folder/filename)
is_file_already_downloaded(m, dir) == get_filename_from_message(m) \in dir

\* ------------------------------------------------------------ main filters
\* variant: the filter of main left out
NotUploaded_NoFilter(fs, st) == fs

\* uploader main: files = [f for f in files if f not in uploaded_files]
NotUploaded(fs, st) == SelectSeq(fs, LAMBDA f : f \notin st)

\* variant: the filter of main looks at the folder only
NotDownloaded_FileOnly(ms, st, dir) ==
    SelectSeq(ms, LAMBDA m : ~is_file_already_downloaded(m, dir))

\* variant: the filter of main looks at the store only
NotDownloaded_StoreOnly(ms, st, dir) == SelectSeq(ms, LAMBDA m : m \notin st)

\* downloader main: msg.id not in downloaded_ids and not is_file_already_downloaded
NotDownloaded(ms, st, dir) ==
    SelectSeq(ms, LAMBDA m : m \notin st /\ ~is_file_already_downloaded(m, dir))

\* ------------------------------------------------------------ batch runner
\* variant: the batch is closed at the end of the list only
BatchReady_AtEnd(n, idx, total, bs) == idx = total

\* variant: every item is a batch of its own
BatchReady_Each(n, idx, total, bs) == TRUE

\* variant: only a full batch is run
BatchReady_Full(n, idx, total, bs) == n = bs

\* if len(tasks) == batch_size or i == len(files):
BatchReady(n, idx, total, bs) == n = bs \/ idx = total

NewTask(item) == [item |-> item, pc |-> "created", out |-> "pending"]

\* variant: the wait returns with the first task done
AllSettled_Any(ts) == \E k \in DOMAIN ts : ts[k].pc = "done"

\* asyncio.gather(*tasks) returns once every task is done
AllSettled(ts) == \A k \in DOMAIN ts : ts[k].pc = "done"

\* variant: a task may resume before its siblings have taken their first step
AllStarted_NoOrder(ts) == TRUE

\* gather schedules the first step of every task before the event loop resumes
\* any of them
AllStarted(ts) == \A k \in DOMAIN ts : ts[k].pc # "created"

InFlight(ts) == {k \in DOMAIN ts : ts[k].pc = "inflight"}

\* the result gather collects for each way a task ends: True after a skip and
\* after a successful transfer, False from the except branch, the exception
\* itself when one leaves the coroutine
Returned(out) ==
    CASE out \in {"ok", "skip"} -> "True"
      [] out = "raised" -> "Exception"
      [] OTHER -> "False"

\* upload_in_batches gathers with return_exceptions=True, download_in_batches
\* without
return_exceptions(p) == p # "downloader"

\* without return_exceptions the first exception leaving a task is raised by
\* the await of gather
GatherRaises(p, ts) ==
    ~return_exceptions(p) /\ \E k \in DOMAIN ts : ts[k].out = "raised"

\* Outcome of upload_file for each way client.send_file ends.  uploader.py raises
\* when no message comes back; uploader_multi_session.py ignores the value.
upload_outcome(p, sent) ==
    CASE sent = "message" -> "ok"
      [] sent = "none" -> IF p = "uploader" THEN "fail" ELSE "ok"
      [] OTHER -> "fail"

\* variant: download_file without its try/except
download_outcome_uncaught(got) == IF got = "file" THEN "ok" ELSE "raised"

\* Outcome of download_file for each way message.download_media ends: every
\* Exception is caught and printed.
download_outcome(got) == IF got = "file" THEN "ok" ELSE "fail"

\* variant: the identifier is added whatever the outcome
Mark_Always(st, item, out) == st \cup {item}

\* variant: a failure takes the identifier out of the set
Mark_Discard(st, item, out) == IF out \in {"ok", "skip"} THEN st \cup {item} ELSE st \ {item}

\* uploaded_files.add / downloaded_ids.add on the success paths only
Mark(st, item, out) == IF out \in {"ok", "skip"} THEN st \cup {item} ELSE st

\* variant: the final else branch of the count left out
Failures_OnlyExceptions(results) == Count(results, LAMBDA r : r = "Exception")

\* for result in results: Exception -> failed, True -> successful, else failed
Successes(results) == Count(results, LAMBDA r : r = "True")
Failures(results) == Count(results, LAMBDA r : r # "True")

Results(ts) == [k \in DOMAIN ts |-> Returned(ts[k].out)]

Outcomes(ts) == [k \in DOMAIN ts |-> [item |-> ts[k].item, out |-> ts[k].out]]

\* -------------------------------------------------------- session registry
MaxClock == 2    \* readings of the event loop clock taken by switch_session

SessionNames == {"x", "y"}
Phones == {1, 2}     \* phone_number / api_id / api_hash given to add_session

\* {} as a dict of SessionInfo
EmptySessions == [n \in {} |-> 0]

\* str(self.sessions_dir / f"{name}.session"): one file per name
SessionFile(name) == name

\* SessionInfo(...) as add_session builds it: the phone number and the api_id /
\* api_hash pair typed in with it; last_used = 0 stands for None
SessionInfo(name, phone) ==
    [phone_number |-> phone, api_id |-> phone, session_file |-> SessionFile(name),
     last_used |-> 0]

\* self.sessions[name] = info
Put(ss, name, info) ==
    [n \in DOMAIN ss \cup {name} |-> IF n = name THEN info ELSE ss[n]]

\* variant: every record goes with the one removed
Delete_All(ss, name) == [n \in {} |-> 0]

\* del self.sessions[name]
Delete(ss, name) == [n \in DOMAIN ss \ {name} |-> ss[n]]

AbsentConfig == [kind |-> "absent", sessions |-> EmptySessions, current_session |-> "None"]
MalformedConfig ==
    [kind |-> "malformed", sessions |-> EmptySessions, current_session |-> "None"]
JsonConfig(ss, cur) == [kind |-> "json", sessions |-> ss, current_session |-> cur]

\* variant: the current pointer is left out of the file
save_sessions_NoPointer(ss, cur, old, outcome) ==
    CASE outcome = "ok" -> JsonConfig(ss, "None")
      [] outcome = "open_fails" -> old
      [] OTHER -> MalformedConfig

\* SessionManager.save_sessions: json.dump of the sessions and the current pointer
\* into open(config_file, 'w'); any exception is printed and swallowed
save_sessions(ss, cur, old, outcome) ==
    CASE outcome = "ok" -> JsonConfig(ss, cur)
      [] outcome = "open_fails" -> old
      [] OTHER -> MalformedConfig

\* SessionManager.__init__ + load_sessions: the registry read from the config
\* file; no file, or a file that cannot be read, gives the empty registry
load_sessions(file) ==
    IF file.kind = "json"
    THEN [sessions |-> file.sessions, current_session |-> file.current_session]
    ELSE [sessions |-> EmptySessions, current_session |-> "None"]

\* the object and its files as one value
Registry(ss, cur, cfg, sf, t) ==
    [sessions |-> ss, current_session |-> cur, config |-> cfg, session_files |-> sf,
     clock |-> t]

\* what a method call leaves: the registry, how the call went, what it returned
\* and how its save_sessions went
Outcome(r, kind, returned, saved) ==
    [reg |-> r, kind |-> kind, returned |-> returned, saved |-> saved]

\* variant: add_session without its test of the name
Registered_Never(ss, name) == FALSE

\* `name in self.sessions`
Registered(ss, name) == name \in DOMAIN ss

\* variant: switch_session without its test of the session file
session_file_exists_Always(info, sf) == TRUE

\* Path(session_info.session_file).exists()
session_file_exists(info, sf) == info.session_file \in sf

\* variant: a call that fails writes the config file all the same
Fails_Saving(r, kind) ==
    Outcome([r EXCEPT !.config = save_sessions(r.sessions, r.current_session, @, "ok")],
            kind, "False", "none")

\* the early `return False` of a method: nothing is touched
Fails(r, kind) == Outcome(r, kind, "False", "none")

\* variant: the time is written into every record
Touch_All(ss, name, t) == [n \in DOMAIN ss |-> [ss[n] EXCEPT !.last_used = t]]

\* self.sessions[session_name].last_used = str(asyncio.get_event_loop().time())
Touch(ss, name, t) == [ss EXCEPT ![name].last_used = t]

\* the ways the login inside add_session ends
Logins == {"ok", "password_ok", "password_rejected", "code_invalid", "error"}

\* the except clause of add_session a failed login ends in
add_failure(login) ==
    CASE login = "password_rejected" -> "password_rejected"
      [] login = "code_invalid" -> "invalid_code"
      [] OTHER -> "connect_error"

\* SessionManager.add_session; `created` tells whether a failed login has left
\* the session file the client opened
add_session(r, name, phone, login, created, outcome) ==
    IF Registered(r.sessions, name)
    THEN Fails(r, "name_conflict")
    ELSE IF login \in {"ok", "password_ok"}
    THEN LET ss == Put(r.sessions, name, SessionInfo(name, phone))
             after == [r EXCEPT !.sessions = ss,
                                !.session_files = @ \cup {SessionFile(name)},
                                !.config = save_sessions(ss, r.current_session, @, outcome)]
         IN  \* an exception of the save would end in add_session's own `except Exception`
             IF save_raises(outcome)
             THEN Outcome(after, "connect_error", "False", outcome)
             ELSE Outcome(after, "added", "True", outcome)
    ELSE Outcome([r EXCEPT !.session_files =
                              IF created THEN @ \cup {SessionFile(name)} ELSE @],
                 add_failure(login), "False", "none")

\* SessionManager.switch_session
switch_session(r, name, outcome) ==
    IF name \notin DOMAIN r.sessions
    THEN Fails(r, "not_found")
    ELSE IF ~session_file_exists(r.sessions[name], r.session_files)
    THEN Fails(r, "file_missing")
    ELSE LET t == r.clock + 1
             ss == Touch(r.sessions, name, t) IN
         Outcome([r EXCEPT !.current_session = name,
                           !.sessions = ss,
                           !.clock = t,
                           !.config = save_sessions(ss, name, @, outcome)],
                 "switched", IF save_raises(outcome) THEN "raised" ELSE "True", outcome)

\* variant: the pointer is left on the removed name
Unset_Never(cur, name) == cur

\* if self.current_session == session_name: self.current_session = None
Unset(cur, name) == IF cur = name THEN "None" ELSE cur

\* SessionManager.remove_session; `confirm` is the answer to the prompt, `unlinked`
\* tells whether the deletion of the session file went through
remove_session(r, name, confirm, unlinked, outcome) ==
    IF name \notin DOMAIN r.sessions
    THEN Fails(r, "not_found")
    ELSE IF ~confirm
    THEN Fails(r, "cancelled")
    ELSE LET ss == Delete(r.sessions, name)
             cur == Unset(r.current_session, name) IN
         Outcome([r EXCEPT !.sessions = ss,
                           !.current_session = cur,
                           !.session_files =
                              IF unlinked THEN @ \ {r.sessions[name].session_file} ELSE @,
                           !.config = save_sessions(ss, cur, @, outcome)],
                 "removed", IF save_raises(outcome) THEN "raised" ELSE "True", outcome)

\* the choices a call of add_session depends on: a login that succeeds leaves the
\* session file, one that fails records no phone and saves nothing
AddChoices ==
    {c \in [login : Logins, phone : Phones, created : BOOLEAN, outcome : SaveOutcomes] :
        IF c.login \in {"ok", "password_ok"}
        THEN c.created
        ELSE c.outcome = "ok" /\ c.phone = 1}

\* with a registered name the call ends before any of the choices counts
AddChoicesFor(r, name) ==
    IF Registered(r.sessions, name)
    THEN {c \in AddChoices : c.login = "error" /\ ~c.created}
    ELSE AddChoices

\* the choices a call of remove_session depends on: without the confirmation
\* nothing is deleted or saved
RemoveChoices ==
    {c \in [confirm : BOOLEAN, unlinked : BOOLEAN, outcome : SaveOutcomes] :
        ~c.confirm => (~c.unlinked /\ c.outcome = "ok")}

\* no TelegramClient object
NoClient == [session_file |-> "None", api_id |-> 0]

\* TelegramClient(session_info.session_file, session_info.api_id, session_info.api_hash)
TelegramClient(info) == [session_file |-> info.session_file, api_id |-> info.api_id]

\* the values Python takes for false in `session_name or self.current_session` and in
\* `not target_session`: None and the empty string
Falsy == {"None", ""}

\* variant: the current pointer wins over the name given
Target_CurrentFirst(name, cur) == IF cur \in Falsy THEN name ELSE cur

\* target_session = session_name or self.current_session
Target(name, cur) == IF name \in Falsy THEN cur ELSE name

\* SessionManager.get_client: the client built, "None" for none; `created` tells
\* whether building the client has left its session file on disk, `started`
\* whether client.start() went through
get_client(r, name, created, started) ==
    LET target == Target(name, r.current_session) IN
    IF target \in Falsy \/ target \notin DOMAIN r.sessions
    THEN [reg |-> r, kind |-> "no_active_session", returned |-> "None",
          client |-> NoClient]
    ELSE LET info == r.sessions[target]
             after == [r EXCEPT !.session_files =
                                   IF created THEN @ \cup {info.session_file} ELSE @] IN
         [reg |-> after, kind |-> IF started THEN "connected" ELSE "connect_error",
          returned |-> IF started THEN "client" ELSE "None",
          client |-> TelegramClient(info)]

\* SessionManager.get_current_session returns a record: the pointer is set and
\* names a registered session
has_current_session(r) ==
    r.current_session \notin Falsy /\ r.current_session \in DOMAIN r.sessions

\* uploader.py / downloder.py: session_name = os.getenv("SESSION_NAME",
\* "default_session") and the API_ID / API_HASH of .env.local, read when the
\* module is imported; the registry takes no part in it
EnvClient == [session_file |-> "default_session", api_id |-> 0]

\* session_switcher.main_menu, choices 1 and 2: run_uploader / run_downloader
\* when get_current_session() gives a session; the main() they import opens
\* TelegramClient(session_name, api_id, api_hash)
run_transfer(r) ==
    IF has_current_session(r)
    THEN [kind |-> "started", client |-> EnvClient]
    ELSE [kind |-> "no_active_session", client |-> NoClient]

NoCall ==
    [op |-> "none", name |-> "None", kind |-> "none", returned |-> "None", saved |-> "none",
     client |-> NoClient]

\* ------------------------------------------------------------ file catalog
MaxFiles == 3    \* most files in the directory folder_path names

\* A file name: the parts of its stem between underscores and the extension
\* os.path.splitext gives (empty for a name that only starts with a dot).
\* The names are a.jpg, c.JPG, b.txt, state_state.json, state.json and .jpg
Name(stem, ext) == [stem |-> stem, ext |-> ext]

FileNames ==
    {Name(<<"a">>, ".jpg"), Name(<<"c">>, ".JPG"), Name(<<"b">>, ".txt"),
     Name(<<"state", "state">>, ".json"), Name(<<"state">>, ".json"),
     Name(<<".jpg">>, "")}

\* os.path.splitext(filename)[1]
splitext(filename) == filename.ext

\* variant: the extension is taken as it is written
lower_Identity(ext) == ext

\* str.lower() on an extension
lower(ext) == IF ext = ".JPG" THEN ".jpg" ELSE ext

\* filename.endswith('_state.json')
is_state_file(filename) ==
    /\ filename.ext = ".json"
    /\ Len(filename.stem) >= 2
    /\ filename.stem[Len(filename.stem)] = "state"

\* file_types=None, and the lists of extensions a caller can pass
NoTypes == [given |-> FALSE, exts |-> {}]
Types(exts) == [given |-> TRUE, exts |-> exts]

\* `if file_types:` - None and the empty list are false
Truthy(ft) == ft.given /\ ft.exts # {}

\* a directory that does not exist, and one with its files and sub-directories
\* in the order the system lists them
AbsentDir == [exists |-> FALSE, files |-> <<>>, dirs |-> <<>>]
Dir(fs, ds) == [exists |-> TRUE, files |-> fs, dirs |-> ds]

\* os.path.join(root, filename): `dir` is the way from folder_path to the directory
Path(dir, filename) == [dir |-> dir, name |-> filename]

\* os.walk(folder_path): one (root, filenames) entry per directory, top down
RECURSIVE walk(_, _)
RECURSIVE walk_dirs(_, _, _)
walk_dirs(dir, ds, k) ==
    IF k > Len(ds) THEN <<>>
    ELSE walk(Append(dir, k), ds[k]) \o walk_dirs(dir, ds, k + 1)

walk(dir, d) ==
    IF ~d.exists THEN <<>>
    ELSE <<[root |-> dir, filenames |-> d.files]>> \o walk_dirs(dir, d.dirs, 1)

\* the body of the inner loop: a file is appended unless one of the two
\* `continue` is taken
Appended(filename, ft) ==
    /\ ~is_state_file(filename)
    /\ Truthy(ft) => lower(splitext(filename)) \in ft.exts

RECURSIVE collect(_, _)
collect(entries, ft) ==
    IF entries = <<>> THEN <<>>
    ELSE LET e == Head(entries)
             paths == [k \in DOMAIN e.filenames |-> Path(e.root, e.filenames[k])] IN
         SelectSeq(paths, LAMBDA q : Appended(q.name, ft)) \o collect(Tail(entries), ft)

\* get_files_from_folder(folder_path, file_types)
get_files_from_folder(d, ft) ==
    IF ~d.exists THEN <<>> ELSE collect(walk(<<>>, d), ft)

\* nothing listed yet
NoCatalog == tree = AbsentDir /\ file_types = NoTypes /\ listing = <<>>

\* -------------------------------------------------------------------- Init
\* The candidate lists: identifiers are labels, so the lists are taken in
\* non-decreasing order; an identifier may occur more than once (the batch
\* runner does not de-duplicate).
CandidateLists ==
    {s \in UNION {[1..n -> Items] : n \in 0..MaxLen} :
        \A a, b \in DOMAIN s : a < b => s[a] <= s[b]}

\* os.walk lists every path once; get_messages returns every message once
NoDuplicates(s) == \A a, b \in DOMAIN s : a # b => s[a] # s[b]

BatchSizes(p) == IF p = "multi" THEN {MultiBatchSize} ELSE 1..MaxBatch

\* the state file found by the first run: none, an unreadable one, or the one an
\* earlier run left
InitialFiles == {AbsentFile, MalformedFile, ScalarFile, JsonFile(<<1>>)}

Init ==
    /\ prog \in Progs
    /\ batch_size \in BatchSizes(prog)
    /\ candidates \in CandidateLists
    /\ disk \in InitialFiles
    /\ folder = {}
    /\ entry = "none"
    /\ phase = "idle"
    /\ ret = "none"
    /\ store = {}
    /\ pre = {}
    /\ files = <<>>
    /\ already = 0
    /\ i = 0
    /\ tasks = <<>>
    /\ successful_uploads = 0
    /\ failed_uploads = 0
    /\ attempts = [x \in Items |-> 0]
    /\ saves = 0
    /\ lastSave = "none"
    /\ log = <<>>
    /\ prev = "none"
    /\ lost = {}
    /\ sessions = EmptySessions
    /\ current_session = "None"
    /\ config = AbsentConfig
    /\ session_files = {}
    /\ clock = 0
    /\ call = NoCall
    /\ NoCatalog

\* how a finished run is remembered by the next one
Summary ==
    IF phase = "idle" THEN "none"
    ELSE IF ret = "completed" /\ log # <<>>
              /\ \A k \in DOMAIN log : log[k].out \in {"ok", "skip"}
         THEN IF lastSave = "ok" THEN "all_ok_saved" ELSE "all_ok_unsaved"
    ELSE IF ret = "interrupted" THEN "interrupted"
    ELSE "other"

\* ----------------------------------------------------------------- actions
\* The start of a run: the store, the list handed to the batch runner and the
\* counters of the runner.
StartRun(how, st, fs, outcome) ==
    /\ entry' = how
    /\ store' = st
    /\ pre' = st
    /\ files' = fs
    /\ already' = IF how = "main" THEN Len(candidates) - Len(fs) ELSE 0
    /\ i' = 0
    /\ tasks' = <<>>
    /\ successful_uploads' = 0
    /\ failed_uploads' = 0
    /\ attempts' = [x \in Items |-> 0]
    /\ saves' = 0
    /\ lastSave' = "none"
    /\ log' = <<>>
    /\ prev' = Summary
    /\ lost' = store \ st
    /\ ret' = outcome
    /\ phase' = IF outcome = "none" THEN "loop" ELSE "done"
    /\ UNCHANGED <<prog, batch_size, candidates, disk, folder>>
    /\ UNCHANGED <<regVars, catVars>>

\* a script is started on a fresh process, or again after an earlier run of it
ScriptStarts == phase = "idle" \/ (phase = "done" /\ entry = "main")

\* uploader.py / uploader_multi_session.py main(), folder mode: "No files found"
\* before the state is read, "All files have already been uploaded" after the
\* filter, else upload_in_batches
upload_main ==
    /\ prog \in {"uploader", "multi"}
    /\ ScriptStarts
    /\ NoDuplicates(candidates)
    /\ LET st == load_state(disk)
           fs == NotUploaded(candidates, st)
       IN  IF candidates = <<>> THEN StartRun("main", load_state(disk), <<>>, "no_files")
           ELSE IF Propagates(json_load(disk), LoadHandled)
                THEN StartRun("main", {}, <<>>, "crashed")
           ELSE IF fs = <<>> THEN StartRun("main", st, fs, "all_done")
           ELSE StartRun("main", st, fs, "none")

\* downloder.py main(): download_in_batches when a message is left after the
\* filter
download_main ==
    /\ prog = "downloader"
    /\ ScriptStarts
    /\ NoDuplicates(candidates)
    /\ LET st == load_state(disk)
           fs == NotDownloaded(candidates, st, folder)
       IN  IF Propagates(json_load(disk), LoadHandled)
           THEN StartRun("main", {}, <<>>, "crashed")
           ELSE IF fs = <<>>
           THEN StartRun("main", st, fs, IF candidates = <<>> THEN "no_files" ELSE "all_done")
           ELSE StartRun("main", st, fs, "none")

\* upload_in_batches / download_in_batches called on a list of its own, with
\* the store read from the state file: an empty list runs no iteration
batch_runner_call ==
    /\ prog \in Progs
    /\ phase = "idle"
    /\ StartRun("call", load_state(disk), candidates,
                IF candidates = <<>> THEN "completed" ELSE "none")

\* one iteration of `for i, file_path in enumerate(files, 1)` up to the test
\* that closes the batch
batch_append ==
    /\ phase = "loop"
    /\ i < Len(files)
    /\ i' = i + 1
    /\ tasks' = Append(tasks, NewTask(files[i + 1]))
    /\ phase' = IF BatchReady(Len(tasks) + 1, i + 1, Len(files), batch_size)
                THEN "gather" ELSE "loop"
    /\ UNCHANGED <<prog, batch_size, candidates, disk, folder, entry, ret, store, pre,
                   files, already, successful_uploads, failed_uploads, attempts, saves,
                   lastSave, log, prev, lost>>
    /\ UNCHANGED <<regVars, catVars>>

\* gather runs the first step of every task in list order before any of them
\* resumes
NextToStart(k) ==
    /\ k \in DOMAIN tasks
    /\ tasks[k].pc = "created"
    /\ \A j \in 1..(k - 1) : tasks[j].pc # "created"

\* upload_file up to `await client.send_file`
upload_file_begin(k) ==
    /\ prog \in {"uploader", "multi"}
    /\ phase = "gather"
    /\ NextToStart(k)
    /\ \E readable \in BOOLEAN :
         LET item == tasks[k].item IN
         IF ~readable
         THEN \* os.path.getsize raises: except branch, return False
              /\ tasks' = [tasks EXCEPT ![k].pc = "done", ![k].out = "fail"]
              /\ UNCHANGED attempts
         ELSE IF item \in store
         THEN \* already uploaded: return True
              /\ tasks' = [tasks EXCEPT ![k].pc = "done", ![k].out = "skip"]
              /\ UNCHANGED attempts
         ELSE /\ tasks' = [tasks EXCEPT ![k].pc = "inflight"]
              /\ attempts' = [attempts EXCEPT ![item] = @ + 1]
    /\ UNCHANGED <<prog, batch_size, candidates, disk, folder, entry, phase, ret, store,
                   pre, files, already, i, successful_uploads, failed_uploads, saves,
                   lastSave, log, prev, lost>>
    /\ UNCHANGED <<regVars, catVars>>

\* upload_file from the return of send_file to its own return
upload_file_end(k) ==
    /\ prog \in {"uploader", "multi"}
    /\ phase = "gather"
    /\ AllStarted(tasks)
    /\ k \in InFlight(tasks)
    /\ \E sent \in {"message", "none", "raises"} :
         LET out == upload_outcome(prog, sent) IN
         /\ tasks' = [tasks EXCEPT ![k].pc = "done", ![k].out = out]
         /\ store' = Mark(store, tasks[k].item, out)
    /\ UNCHANGED <<prog, batch_size, candidates, disk, folder, entry, phase, ret, pre,
                   files, already, i, successful_uploads, failed_uploads, attempts, saves,
                   lastSave, log, prev, lost>>
    /\ UNCHANGED <<regVars, catVars>>

\* download_file up to `await message.download_media`
download_file_begin(k) ==
    /\ prog = "downloader"
    /\ phase = "gather"
    /\ NextToStart(k)
    /\ LET item == tasks[k].item IN
       IF is_file_already_downloaded(item, folder)
       THEN /\ tasks' = [tasks EXCEPT ![k].pc = "done", ![k].out = "skip"]
            /\ store' = Mark(store, item, "skip")
            /\ UNCHANGED attempts
       ELSE /\ tasks' = [tasks EXCEPT ![k].pc = "inflight"]
            /\ attempts' = [attempts EXCEPT ![item] = @ + 1]
            /\ UNCHANGED store
    /\ UNCHANGED <<prog, batch_size, candidates, disk, folder, entry, phase, ret, pre,
                   files, already, i, successful_uploads, failed_uploads, saves, lastSave,
                   log, prev, lost>>
    /\ UNCHANGED <<regVars, catVars>>

\* The file message.download_media(file="./<folder>/") leaves: the library names
\* it, under the name get_filename_from_message derives or under another one.
Downloaded(dir, m, derived) ==
    IF derived THEN dir \cup {get_filename_from_message(m)} ELSE dir

\* download_file from the return of download_media to its own return
download_file_end(k) ==
    /\ prog = "downloader"
    /\ phase = "gather"
    /\ AllStarted(tasks)
    /\ k \in InFlight(tasks)
    /\ \E got \in {"file", "raises"}, derived \in BOOLEAN :
         LET out == download_outcome(got) IN
         /\ got = "raises" => derived = FALSE
         /\ tasks' = [tasks EXCEPT ![k].pc = "done", ![k].out = out]
         /\ store' = Mark(store, tasks[k].item, out)
         /\ folder' = Downloaded(folder, tasks[k].item, derived)
    /\ UNCHANGED <<prog, batch_size, candidates, disk, entry, phase, ret, pre, files,
                   already, i, successful_uploads, failed_uploads, attempts, saves,
                   lastSave, log, prev, lost>>
    /\ UNCHANGED <<regVars, catVars>>

\* The return of asyncio.gather, the counting of the results (uploaders), the
\* save of the state file and tasks.clear(); after the last batch the runner
\* returns.  An exception gather raises leaves the runner at once.
batch_join ==
    /\ phase = "gather"
    /\ IF GatherRaises(prog, tasks)
       THEN /\ phase' = "done"
            /\ ret' = "crashed"
            /\ UNCHANGED <<disk, lastSave, saves, successful_uploads, failed_uploads,
                           log, tasks>>
       ELSE /\ AllSettled(tasks)
            /\ IF prog = "downloader"
               THEN UNCHANGED <<successful_uploads, failed_uploads>>
               ELSE /\ successful_uploads' = successful_uploads + Successes(Results(tasks))
                    /\ failed_uploads' = failed_uploads + Failures(Results(tasks))
            /\ saves' = saves + 1
            /\ log' = log \o Outcomes(tasks)
            /\ \E outcome \in SaveOutcomes :
                 /\ disk' = save_state(store, disk, outcome)
                 /\ lastSave' = outcome
                 /\ IF save_raises(outcome)
                    THEN tasks' = tasks /\ phase' = "done" /\ ret' = "crashed"
                    ELSE /\ tasks' = <<>>
                         /\ IF i = Len(files)
                            THEN phase' = "done" /\ ret' = "completed"
                            ELSE phase' = "loop" /\ ret' = ret
    /\ UNCHANGED <<prog, batch_size, candidates, folder, entry, store, pre, files,
                   already, i, attempts, prev, lost>>
    /\ UNCHANGED <<regVars, catVars>>

Next ==
    \/ upload_main
    \/ download_main
    \/ batch_runner_call
    \/ batch_append
    \/ \E k \in 1..MaxLen : upload_file_begin(k)
    \/ \E k \in 1..MaxLen : upload_file_end(k)
    \/ \E k \in 1..MaxLen : download_file_begin(k)
    \/ \E k \in 1..MaxLen : download_file_end(k)
    \/ batch_join

Spec == Init /\ [][Next]_vars

\* ------------------------------------------------- runs that are cut short
\* variant: the store is written to the state file when the run is cut
interrupt_Saving ==
    /\ prog \in Progs
    /\ phase \in {"loop", "gather"}
    /\ phase' = "done"
    /\ ret' = "interrupted"
    /\ disk' = save_state(store, disk, "ok")
    /\ UNCHANGED <<prog, batch_size, candidates, folder, entry, store, pre, files,
                   already, i, tasks, successful_uploads, failed_uploads, attempts, saves,
                   lastSave, log, prev, lost>>
    /\ UNCHANGED <<regVars, catVars>>

\* Ctrl-C or the end of the process while the batch runner is at work: the
\* sets in memory are gone, the state file and the downloaded files stay.
\* `tasks` keeps the batch that was cut for the record.
interrupt ==
    /\ prog \in Progs
    /\ phase \in {"loop", "gather"}
    /\ phase' = "done"
    /\ ret' = "interrupted"
    /\ UNCHANGED <<prog, batch_size, candidates, disk, folder, entry, store, pre, files,
                   already, i, tasks, successful_uploads, failed_uploads, attempts, saves,
                   lastSave, log, prev, lost>>
    /\ UNCHANGED <<regVars, catVars>>

NextInterrupt == Next \/ interrupt

SpecInterrupt == Init /\ [][NextInterrupt]_vars

\* ------------------------------------- the batch runner with its scheduler
\* upload_in_batches / download_in_batches called on a list; the event loop
\* runs every step that is ready
NextRunner ==
    \/ batch_runner_call
    \/ batch_append
    \/ \E k \in 1..MaxLen : upload_file_begin(k)
    \/ \E k \in 1..MaxLen : upload_file_end(k)
    \/ \E k \in 1..MaxLen : download_file_begin(k)
    \/ \E k \in 1..MaxLen : download_file_end(k)
    \/ batch_join

\* The for loop and the code after an await go on as soon as they can (one
\* thread, one event loop); every send_file / download_media comes back.
RunnerFairness ==
    /\ WF_vars(batch_runner_call)
    /\ WF_vars(batch_append)
    /\ WF_vars(batch_join)
    /\ \A k \in 1..MaxLen :
          /\ WF_vars(upload_file_begin(k))
          /\ WF_vars(upload_file_end(k))
          /\ WF_vars(download_file_begin(k))
          /\ WF_vars(download_file_end(k))

SpecRunner == Init /\ [][NextRunner]_vars /\ RunnerFairness

\* ------------------------------------------- the state file on its own
\* every content of a state file
StateFiles ==
    {AbsentFile, MalformedFile, ScalarFile} \cup {JsonFile(SetToSeq(S)) : S \in SUBSET Items}

\* save and load called on any identifier set and any file
InitStateFile ==
    /\ prog \in {"uploader", "downloader"} /\ batch_size = 1 /\ candidates = <<>>
    /\ disk \in StateFiles /\ store \in SUBSET Items
    /\ folder = {} /\ entry = "none" /\ phase = "idle" /\ ret = "none" /\ pre = {}
    /\ files = <<>> /\ already = 0 /\ i = 0 /\ tasks = <<>>
    /\ successful_uploads = 0 /\ failed_uploads = 0
    /\ attempts = [x \in Items |-> 0] /\ saves = 0 /\ lastSave = "none"
    /\ log = <<>> /\ prev = "none" /\ lost = {}
    /\ sessions = EmptySessions /\ current_session = "None" /\ config = AbsentConfig
    /\ session_files = {} /\ clock = 0 /\ call = NoCall
    /\ NoCatalog

\* save_upload_state(uploaded_files, state_file) / save_download_state; pre keeps
\* what the file held before the call
save_upload_state ==
    /\ \E outcome \in SaveOutcomes :
         /\ disk' = save_state(store, disk, outcome)
         /\ lastSave' = outcome
    /\ pre' = load_state(disk)
    /\ UNCHANGED <<prog, batch_size, candidates, folder, entry, phase, ret, store, files,
                   already, i, tasks, successful_uploads, failed_uploads, attempts, saves,
                   log, prev, lost>>
    /\ UNCHANGED <<regVars, catVars>>

\* uploaded_files = load_upload_state(state_file) / load_download_state
load_upload_state ==
    /\ store' = load_state(disk)
    /\ UNCHANGED <<prog, batch_size, candidates, disk, folder, entry, phase, ret, pre,
                   files, already, i, tasks, successful_uploads, failed_uploads, attempts,
                   saves, lastSave, log, prev, lost>>
    /\ UNCHANGED <<regVars, catVars>>

NextStateFile == save_upload_state \/ load_upload_state

SpecStateFile == InitStateFile /\ [][NextStateFile]_vars

\* --------------------------------------------- session registry: actions
\* the registry file found by the first process: none, an unreadable one, or one
\* that holds session x, current or not
InitialConfigs ==
    LET one == Put(EmptySessions, "x", SessionInfo("x", 1)) IN
    {AbsentConfig, MalformedConfig, JsonConfig(one, "x"), JsonConfig(one, "None")}

\* no transfer program has run
NoRun ==
    /\ prog = "session_manager" /\ batch_size = 1 /\ candidates = <<>>
    /\ disk = AbsentFile /\ folder = {} /\ entry = "none" /\ phase = "idle"
    /\ ret = "none" /\ store = {} /\ pre = {} /\ files = <<>> /\ already = 0
    /\ i = 0 /\ tasks = <<>> /\ successful_uploads = 0 /\ failed_uploads = 0
    /\ attempts = [x \in Items |-> 0] /\ saves = 0 /\ lastSave = "none"
    /\ log = <<>> /\ prev = "none" /\ lost = {}

\* SessionManager(): the state after construction
InitSessions ==
    /\ NoRun
    /\ config \in InitialConfigs
    /\ sessions = load_sessions(config).sessions
    /\ current_session = load_sessions(config).current_session
    /\ session_files \in SUBSET {SessionFile("x")}
    /\ clock = 0
    /\ call = NoCall
    /\ NoCatalog

\* the SessionManager object and its files before the call
Reg == Registry(sessions, current_session, config, session_files, clock)

\* the state a method call leaves
Apply(o, op, name) ==
    /\ sessions' = o.reg.sessions
    /\ current_session' = o.reg.current_session
    /\ config' = o.reg.config
    /\ session_files' = o.reg.session_files
    /\ clock' = o.reg.clock
    /\ call' = [op |-> op, name |-> name, kind |-> o.kind, returned |-> o.returned,
                saved |-> o.saved, client |-> NoClient]
    /\ UNCHANGED <<batchVars, catVars>>

\* a new process constructs its SessionManager
SessionManager_init ==
    /\ prog = "session_manager"
    /\ call.op # "none"
    /\ Apply(Outcome([Reg EXCEPT !.sessions = load_sessions(config).sessions,
                                 !.current_session = load_sessions(config).current_session],
                      "loaded", "None", "none"), "init", "None")

\* _add_session_interactive: add_session with the values typed in
add_session_call ==
    /\ prog = "session_manager"
    /\ \E name \in SessionNames :
         \E c \in AddChoicesFor(Reg, name) :
            Apply(add_session(Reg, name, c.phone, c.login, c.created, c.outcome),
                  "add", name)

\* _switch_session_interactive: switch_session with the name typed in
switch_session_call ==
    /\ prog = "session_manager"
    /\ clock < MaxClock
    /\ \E name \in SessionNames, outcome \in SaveOutcomes :
         Apply(switch_session(Reg, name, outcome), "switch", name)

\* _remove_session_interactive: remove_session with the name typed in
remove_session_call ==
    /\ prog = "session_manager"
    /\ \E name \in SessionNames, c \in RemoveChoices :
         Apply(remove_session(Reg, name, c.confirm, c.unlinked, c.outcome), "remove", name)

\* session_switcher.add_new_session: add_session and, when it returned True,
\* switch_session to the new name
add_new_session ==
    /\ prog = "session_manager"
    /\ clock < MaxClock
    /\ \E name \in SessionNames :
         \E c \in AddChoicesFor(Reg, name) :
         LET added == add_session(Reg, name, c.phone, c.login, c.created, c.outcome) IN
         IF added.returned = "True"
         THEN \E outcome2 \in SaveOutcomes :
                LET switched == switch_session(added.reg, name, outcome2) IN
                Apply(Outcome(switched.reg, added.kind, added.returned, switched.saved),
                      "add_new_session", name)
         ELSE Apply(added, "add_new_session", name)

\* the names get_client is called with: none, the empty string, a session name
ClientNames == {"None", ""} \cup SessionNames

\* _test_session and other callers: await get_client(name)
get_client_call ==
    /\ prog = "session_manager"
    /\ \E name \in ClientNames, created \in BOOLEAN, started \in BOOLEAN :
         LET o == get_client(Reg, name, created, started) IN
         /\ o.kind = "no_active_session" => (created /\ started)
         /\ session_files' = o.reg.session_files
         /\ call' = [op |-> "get_client", name |-> name, kind |-> o.kind,
                     returned |-> o.returned, saved |-> "none", client |-> o.client]
         /\ UNCHANGED <<sessions, current_session, config, clock>>
         /\ UNCHANGED <<batchVars, catVars>>

\* session_switcher.main_menu: "Upload files (current session)" and "Download
\* files (current session)"; the transfer itself is the run of main() that Spec
\* describes
run_transfer_choice ==
    /\ prog = "session_manager"
    /\ \E op \in {"run_uploader", "run_downloader"} :
         LET o == run_transfer(Reg) IN
         call' = [op |-> op, name |-> "None", kind |-> o.kind, returned |-> "None",
                  saved |-> "none", client |-> o.client]
    /\ UNCHANGED <<sessions, current_session, config, session_files, clock>>
    /\ UNCHANGED <<batchVars, catVars>>

NextSessions ==
    \/ SessionManager_init
    \/ add_session_call
    \/ switch_session_call
    \/ remove_session_call
    \/ add_new_session
    \/ get_client_call
    \/ run_transfer_choice

SpecSessions == InitSessions /\ [][NextSessions]_vars

\* ------------------------------------------ the file catalog on its own
\* the lists of distinct file names of one directory
FileLists(n) ==
    {fs \in UNION {[1..m -> FileNames] : m \in 0..n} :
        \A a, b \in DOMAIN fs : a # b => fs[a] # fs[b]}

\* folder_path: no directory, or one with up to MaxFiles files and at most one
\* sub-directory that holds at most one file
Trees ==
    {AbsentDir} \cup
    {Dir(fs, ds) : fs \in FileLists(MaxFiles),
                   ds \in {<<>>} \cup {<<Dir(sub, <<>>)>> : sub \in FileLists(1)}}

\* file_types: None, the empty list, lists of extensions
TypeLists ==
    {NoTypes, Types({}), Types({".jpg"}), Types({".JPG"}), Types({".txt"}),
     Types({".jpg", ".json"})}

InitCatalog ==
    /\ prog \in {"uploader", "multi"} /\ batch_size = 1 /\ candidates = <<>>
    /\ disk = AbsentFile /\ folder = {} /\ entry = "none" /\ phase = "idle"
    /\ ret = "none" /\ store = {} /\ pre = {} /\ files = <<>> /\ already = 0
    /\ i = 0 /\ tasks = <<>> /\ successful_uploads = 0 /\ failed_uploads = 0
    /\ attempts = [x \in Items |-> 0] /\ saves = 0 /\ lastSave = "none"
    /\ log = <<>> /\ prev = "none" /\ lost = {}
    /\ sessions = EmptySessions /\ current_session = "None" /\ config = AbsentConfig
    /\ session_files = {} /\ clock = 0 /\ call = NoCall
    /\ tree \in Trees /\ file_types \in TypeLists /\ listing = <<>>

\* files = get_files_from_folder(folder_path, file_types)
get_files_from_folder_call ==
    /\ phase = "idle"
    /\ entry' = "catalog"
    /\ listing' = get_files_from_folder(tree, file_types)
    /\ UNCHANGED <<prog, batch_size, candidates, disk, folder, phase, ret, store, pre,
                   files, already, i, tasks, successful_uploads, failed_uploads, attempts,
                   saves, lastSave, log, prev, lost>>
    /\ UNCHANGED <<regVars, tree, file_types>>

NextCatalog == get_files_from_folder_call

SpecCatalog == InitCatalog /\ [][NextCatalog]_vars

\* ------------------------------------------------- all four scripts
\* one of the transfer programs or the session manager is started
InitAll == Init \/ InitSessions

NextAll == Next \/ NextSessions

SpecAll == InitAll /\ [][NextAll]_vars

\* ------------------------------------------------------------- properties
Uploader == prog \in {"uploader", "multi"}

Completed == phase = "done" /\ ret = "completed"

\* identifiers of the settled tasks that marked their identifier (success or skip)
MarkedItems(lg) == {lg[k].item : k \in {j \in DOMAIN lg : lg[j].out \in {"ok", "skip"}}}

\* identifiers of the settled tasks whose transfer succeeded
OkItems(lg) == {lg[k].item : k \in {j \in DOMAIN lg : lg[j].out = "ok"}}

\* identifiers of the settled tasks whose upload_file returned True
TrueItems(lg) == {lg[k].item : k \in {j \in DOMAIN lg : Returned(lg[j].out) = "True"}}

\* C1: at the end of an upload run the successful, the failed and the already
\* uploaded files add up to the candidate files; during the run every settled
\* task is counted once.
C1_CountsPartition ==
    Uploader =>
      /\ successful_uploads + failed_uploads = Len(log)
      /\ phase = "done" =>
           successful_uploads + failed_uploads + already = Len(candidates)

C1_Witness ==
    /\ Uploader /\ entry = "main" /\ Completed
    /\ successful_uploads > 0 /\ failed_uploads > 0 /\ already > 0

\* C2: when upload_in_batches has returned, the store is its content at the start
\* plus the files whose upload_file returned True, and the state file written by
\* the last save holds the same set.
C2_StoreIsPrePlusSuccesses ==
    (Uploader /\ Completed) =>
      /\ store = pre \cup TrueItems(log)
      /\ lastSave = "ok" => load_state(disk) = store

C2_Witness ==
    /\ prog = "uploader" /\ entry = "main" /\ Completed /\ batch_size = 2
    /\ pre = {1} /\ files = <<2, 3>> /\ successful_uploads = 2
    /\ store = {1, 2, 3} /\ disk = JsonFile(<<1, 2, 3>>)

\* C3 (as claimed): at the end of a download run the message ids in the store are
\* the ones loaded at the start plus the ones whose download succeeded.
C3_MarkedIffDownloaded ==
    (prog = "downloader" /\ entry = "main" /\ Completed) =>
      store = pre \cup OkItems(log)

\* C4: at most batch_size transfers are in flight, and a task of a batch exists
\* only when every task of the batches before it has settled.
C4_BatchBarrier ==
    /\ Cardinality(InFlight(tasks)) <= batch_size
    /\ Len(tasks) <= batch_size
    /\ \A k \in DOMAIN log : log[k].out # "pending"
    /\ tasks # <<>> => Len(log) = i - Len(tasks)

C4_Witness ==
    /\ batch_size = 2 /\ Len(log) = 2 /\ InFlight(tasks) # {}

C6_FailureIsolation ==
    /\ ret # "crashed"
    /\ Completed =>
         /\ Len(log) = Len(files)
         /\ \A k \in DOMAIN log : log[k].item = files[k] /\ log[k].out # "pending"
         /\ Uploader =>
              /\ failed_uploads = Count(log, LAMBDA e : e.out \notin {"ok", "skip"})
              /\ successful_uploads = Count(log, LAMBDA e : e.out \in {"ok", "skip"})

C6_Witness ==
    /\ Completed /\ batch_size = 2 /\ Len(files) = 3
    /\ log[1].out = "ok" /\ log[2].out = "fail" /\ log[3].out = "ok"
    /\ Uploader => failed_uploads = 1 /\ successful_uploads = 2

\* the checks of C7 on a run of main
NothingToUpload ==
    /\ phase = "done" /\ ret = "all_done"
    /\ successful_uploads = 0 /\ failed_uploads = 0
    /\ already = Len(candidates)
    /\ \A x \in Items : attempts[x] = 0
    /\ saves = 0
    /\ store = pre /\ load_state(disk) = store

\* C7 (as claimed): a folder upload run after a run in which every file
\* succeeded uploads nothing: all candidates are already uploaded.
C7_IdempotentAfterAllOk ==
    (Uploader /\ entry = "main" /\ prev \in {"all_ok_saved", "all_ok_unsaved"})
        => NothingToUpload

\* C7 (amended): a folder upload run after a run in which every file succeeded
\* and whose last save wrote the state file uploads nothing.
C7_Idempotent ==
    (Uploader /\ entry = "main" /\ prev = "all_ok_saved") => NothingToUpload

C7_Witness ==
    /\ Uploader /\ entry = "main" /\ prev = "all_ok_saved" /\ phase = "done"
    /\ Len(candidates) >= 2

\* C8 (as claimed): a file the batch runner finds in the store is counted neither
\* as a success nor as a failure.
C8_SkippedNotCounted ==
    (Uploader /\ Completed) =>
      /\ successful_uploads = Count(log, LAMBDA e : e.out = "ok")
      /\ failed_uploads = Count(log, LAMBDA e : e.out \notin {"ok", "skip"})

\* task k starts its transfer (send_file / download_media) in this step
StartsTransfer(k) ==
    /\ k \in DOMAIN tasks /\ tasks[k].pc = "created"
    /\ k \in DOMAIN tasks' /\ tasks'[k].pc = "inflight"

C10_StoreFrozenInBatch ==
    phase = "gather" => store = pre \cup MarkedItems(log)

\* C10 (amended): the store changes while the batch runs, by the additions of
\* the tasks of the batch that ended well and by nothing else.
C10_StoreGrowsByFinishedTasks ==
    phase # "idle" =>
      store = pre \cup MarkedItems(log) \cup MarkedItems(Outcomes(tasks))

C10_Witness ==
    /\ phase = "gather"
    /\ \E k \in DOMAIN tasks : tasks[k].pc = "done" /\ tasks[k].out = "ok"
    /\ \E k \in DOMAIN tasks : tasks[k].pc = "inflight"
    /\ \E k \in DOMAIN tasks : tasks[k].out = "fail"

\* number of occurrences of x in the list s
Occurrences(s, x) == Count(s, LAMBDA e : e = x)

\* task k takes its first step in this step
Begins(k) ==
    /\ k \in DOMAIN tasks /\ tasks[k].pc = "created"
    /\ k \in DOMAIN tasks' /\ tasks'[k].pc # "created"

\* C11 (as claimed): when the batch runner is called on a list, the transfer is
\* started once for every occurrence of an identifier (here: of an identifier
\* that was not in the store at the start and none of whose tasks failed).
C11_EveryOccurrenceAttempted ==
    (entry = "call" /\ Completed) =>
      \A x \in Items \ pre :
         (\A k \in DOMAIN log : log[k].item = x => log[k].out # "fail")
            => attempts[x] = Occurrences(files, x)

\* C11 (amended): the occurrences of one batch are not de-duplicated: a task
\* takes its first step before any sibling has ended its transfer, and an upload
\* is skipped only for an identifier the store held when the batch was launched.
\* Across batches the runner does skip: no transfer starts for an identifier an
\* earlier batch has put in the store (uploads) or whose derived file an earlier
\* batch has written (downloads).
C11_NoDedupInsideBatch ==
    [][\A k \in DOMAIN tasks :
         Begins(k) =>
           /\ \A j \in DOMAIN tasks : tasks[j].out # "ok"
           /\ (Uploader /\ tasks'[k].out = "skip")
                 => tasks[k].item \in pre \cup MarkedItems(log)
           /\ (Uploader /\ StartsTransfer(k))
                 => tasks[k].item \notin pre \cup MarkedItems(log)
           /\ (~Uploader /\ StartsTransfer(k))
                 => ~is_file_already_downloaded(tasks[k].item, folder)]_vars

C11_Witness ==
    /\ entry = "call" /\ Completed /\ batch_size = 2
    /\ files = <<2, 2, 2>> /\ pre = {}
    /\ log[1].out = "ok" /\ log[2].out = "ok" /\ log[3].out = "skip"
    /\ attempts[2] = 2

\* a run of downloder.py main() that has filtered its messages and started no
\* download yet: the folder is the one the filter saw
DownloadFiltered == prog = "downloader" /\ entry = "main" /\ i = 0

\* s is t with some elements left out, the order kept
RECURSIVE IsSubSeq(_, _)
IsSubSeq(s, t) ==
    IF s = <<>> THEN TRUE
    ELSE IF t = <<>> THEN FALSE
    ELSE IF Head(s) = Head(t) THEN IsSubSeq(Tail(s), Tail(t))
    ELSE IsSubSeq(s, Tail(t))

\* C12: the downloader leaves a message out of the batch run exactly when its id
\* is in the loaded store or a file with its derived name is in the folder; the
\* other messages are handed to download_in_batches, in their order.
C12_DoneIfEither ==
    DownloadFiltered =>
      /\ \A m \in Range(candidates) :
            m \notin Range(files)
              <=> (m \in pre \/ get_filename_from_message(m) \in folder)
      /\ IsSubSeq(files, candidates)
      /\ already = Len(candidates) - Len(files)
      /\ files # <<>> => phase = "loop"

C12_Witness ==
    /\ DownloadFiltered /\ phase = "loop"
    /\ \E m \in Range(candidates) :
          m \notin pre /\ get_filename_from_message(m) \in folder /\ m \notin Range(files)
    /\ \E m \in Range(candidates) :
          m \in pre /\ m \notin Range(files)
    /\ \E m \in Range(files) :
          m \notin pre /\ get_filename_from_message(m) \notin folder

\* a run of main that has saved nothing yet: the state file is the one it loaded
LoadedFrom(kinds) == entry = "main" /\ saves = 0 /\ disk.kind \in kinds

C14_SaveLoadRoundTrip ==
    lastSave = "ok" =>
      /\ load_state(disk) = store
      /\ load_state(disk) \cap (pre \ store) = {}

C14_Witness ==
    /\ lastSave = "ok" /\ store = {2} /\ pre = {1, 3} /\ load_state(disk) = {2}

FailedSaves == {"open_fails", "write_fails"}

\* C15: a save that fails ends nothing.  In a transfer run the batch runner goes
\* on after it: the run does not crash, the store in memory keeps every
\* identifier marked so far and the run is over only when every item has been
\* handled.  In the session manager the call whose save_sessions failed returns
\* normally, its change kept in memory.
C15_SaveFailureNotFatal ==
    /\ (prog \in Progs /\ lastSave \in FailedSaves) =>
          /\ ret # "crashed"
          /\ store = pre \cup MarkedItems(log) \cup MarkedItems(Outcomes(tasks))
          /\ phase = "done" <=> i = Len(files) /\ tasks = <<>>
          /\ Completed => Len(log) = Len(files)
    /\ (prog = "session_manager" /\ call.saved \in FailedSaves) =>
          /\ call.returned = "True"
          /\ call.kind = "added" => sessions # EmptySessions
          /\ call.kind = "switched" => current_session \in DOMAIN sessions
          /\ call.kind = "removed" => DOMAIN sessions # SessionNames

\* a run of three files in two batches whose first save failed and whose
\* second batch was uploaded all the same
C15_WitnessRun ==
    /\ prog \in Progs /\ Completed /\ batch_size = 2 /\ Len(files) = 3
    /\ lastSave \in FailedSaves /\ disk = MalformedFile
    /\ store = pre \cup Range(files) /\ attempts[files[3]] = 1

\* a switch_session whose save failed: the pointer moved, the file did not
C15_WitnessRegistry ==
    /\ prog = "session_manager" /\ call.op = "switch" /\ call.saved = "open_fails"
    /\ call.returned = "True" /\ current_session = "y"
    /\ config.kind = "json" /\ config.current_session = "x"

C15_Witness == C15_WitnessRun \/ C15_WitnessRegistry

\* the registry and its files are after the step what they were before it
RegistryUntouched ==
    /\ sessions' = sessions /\ current_session' = current_session
    /\ config' = config /\ session_files' = session_files

\* C16: add_session with a name the registry holds returns False as a name
\* conflict and touches nothing: the records, the current pointer and the
\* config file stay as they were.
C16_ConflictChangesNothing ==
    [][(call'.op \in {"add", "add_new_session"} /\ call'.name \in DOMAIN sessions) =>
          /\ call'.kind = "name_conflict" /\ call'.returned = "False"
          /\ RegistryUntouched
          /\ call'.name \in DOMAIN sessions']_vars

C16_Witness ==
    /\ call.op = "add" /\ call.kind = "name_conflict" /\ call.name = "x"
    /\ DOMAIN sessions = {"x", "y"} /\ sessions["x"].phone_number = 1
    /\ sessions["x"].last_used > 0 /\ current_session = "x"
    /\ config = JsonConfig(sessions, current_session)

\* the four ways add_session fails
AddFailureKinds == {"name_conflict", "invalid_code", "password_rejected", "connect_error"}

\* C17 (as claimed): two calls of add_session that fail in different ways hand
\* different values (or errors) to their caller.
C17_FailuresDistinguishable ==
    [][(/\ call.op = "add" /\ call'.op = "add"
        /\ call.kind \in AddFailureKinds /\ call'.kind \in AddFailureKinds
        /\ call.kind # call'.kind)
          => call'.returned # call.returned]_vars

\* C18: switch_session with a name the registry does not hold, or with a name
\* whose session file is not on disk, returns False and touches nothing: the
\* current pointer, every record with its last_used and the config file stay.
C18_FailedSwitchChangesNothing ==
    [][(/\ call'.op = "switch"
        /\ \/ call'.name \notin DOMAIN sessions
           \/ sessions[call'.name].session_file \notin session_files)
          => /\ call'.returned = "False"
             /\ call'.kind \in {"not_found", "file_missing"}
             /\ RegistryUntouched
             /\ clock' = clock]_vars

C18_Witness ==
    /\ call.op = "switch" /\ call.kind = "file_missing" /\ call.name = "x"
    /\ "x" \in DOMAIN sessions /\ sessions["x"].last_used = 0
    /\ current_session = "y" /\ config = JsonConfig(sessions, "y")

C20_RemoveAbsentChangesNothing ==
    [][(call'.op = "remove" /\ call'.name \notin DOMAIN sessions) =>
          /\ call'.returned = "False" /\ call'.kind = "not_found"
          /\ RegistryUntouched]_vars

C20_Witness ==
    /\ call.op = "remove" /\ call.kind = "not_found" /\ call.name = "y"
    /\ DOMAIN sessions = {"x"} /\ current_session = "x"
    /\ config.kind = "absent"

C21_WitnessCurrent ==
    /\ call.op = "remove" /\ call.kind = "removed" /\ call.name = "y"
    /\ sessions # EmptySessions /\ current_session = "None"
    /\ config.kind = "json" /\ config.current_session = "y"

\* C22 (as claimed): whenever the last mutating call has returned True the
\* config file holds the registry as it is in memory.
C22_FileEqualsMemory ==
    call.returned = "True" => config = JsonConfig(sessions, current_session)

\* C22 (amended): whenever the last mutating call has returned True and its
\* save_sessions has written the file, the config file holds the registry as it
\* is in memory, sessions and current pointer, whatever calls came before it.
C22_FileEqualsMemoryAfterSave ==
    (call.returned = "True" /\ call.saved = "ok") =>
       /\ config = JsonConfig(sessions, current_session)
       /\ load_sessions(config) =
             [sessions |-> sessions, current_session |-> current_session]

\* a removal saved after a switch to y: two names seen, one record left
C22_Witness ==
    /\ call.op = "remove" /\ call.returned = "True" /\ call.saved = "ok"
    /\ DOMAIN sessions = {"y"} /\ current_session = "y" /\ sessions["y"].last_used = 2
    /\ config = JsonConfig(sessions, "y")

\* the session get_client has to work with after the call: the name given,
\* else the current pointer (the call changes neither)
C23_Target == IF call.name \in {"None", ""} THEN current_session ELSE call.name

\* C23 (as claimed): get_client fails with "no active session" exactly when
\* neither the name given nor the current pointer is a registered session.
C23_FailsIffNeitherResolvable ==
    call.op = "get_client" =>
       (call.kind = "no_active_session"
          <=> (call.name \notin DOMAIN sessions /\ current_session \notin DOMAIN sessions))

\* C23 (amended): the target of get_client is the name given, else the current
\* pointer.  The call fails with "no active session", returns no client and
\* builds none exactly when that target is no registered session - a name that
\* is not registered is not replaced by the current pointer.  In every other
\* case the client is built from the session file and the credentials of the
\* target's own record, and returned when its start went through.
C23_GetClientOfTarget ==
    call.op = "get_client" =>
       /\ call.kind = "no_active_session" <=> C23_Target \notin DOMAIN sessions
       /\ call.kind = "no_active_session" =>
             call.returned = "None" /\ call.client = NoClient
       /\ call.kind # "no_active_session" =>
             /\ call.client.session_file = sessions[C23_Target].session_file
             /\ call.client.api_id = sessions[C23_Target].api_id
             /\ call.returned = "client" <=> call.kind = "connected"

\* get_client("y") while x is current: the client of y, not of x
C23_Witness ==
    /\ call.op = "get_client" /\ call.name = "y" /\ call.returned = "client"
    /\ current_session = "x" /\ DOMAIN sessions = {"x", "y"}
    /\ sessions["x"].api_id # sessions["y"].api_id
    /\ call.client = [session_file |-> SessionFile("y"), api_id |-> sessions["y"].api_id]

\* get_client() with no name: the client of the current session
C23_WitnessCurrent ==
    /\ call.op = "get_client" /\ call.name = "None" /\ call.returned = "client"
    /\ current_session = "y" /\ DOMAIN sessions = {"x", "y"}
    /\ call.client.session_file = SessionFile("y")

\* get_client("y") with y not registered while x is current: no client
C23_WitnessUnregistered ==
    /\ call.op = "get_client" /\ call.name = "y" /\ call.kind = "no_active_session"
    /\ current_session = "x" /\ DOMAIN sessions = {"x"}

\* every file under the directory, with its place
AllPaths(d) ==
    IF ~d.exists THEN {}
    ELSE {Path(<<>>, d.files[k]) : k \in DOMAIN d.files}
         \cup UNION {{Path(<<j>>, d.dirs[j].files[k]) : k \in DOMAIN d.dirs[j].files} :
                        j \in DOMAIN d.dirs}

Listed == entry = "catalog"

\* C24 (as claimed): the list returned holds exactly the files under the root
\* whose name does not end with _state.json and, when a list of extensions is
\* given, whose extension equals a member of the list up to case.
C24_MemberUpToCase ==
    Listed =>
       Range(listing) =
          {q \in AllPaths(tree) :
              /\ ~is_state_file(q.name)
              /\ file_types.given =>
                    \E e \in file_types.exts : lower(e) = lower(splitext(q.name))}

\* C24 (amended): the list returned holds, once each and directory by
\* directory, exactly the files under the root whose name does not end with
\* _state.json and, when a non-empty list of extensions is given, whose
\* lower-cased extension is a member of the list as written; None and the
\* empty list filter nothing; a root that does not exist gives the empty list.
\* The directory a.jpg, b.txt, state_state.json with ['.jpg'] gives [a.jpg];
\* c.JPG is listed with ['.jpg'] and not with ['.JPG'].
C24_ListsExactly ==
    Listed =>
       /\ Range(listing) =
             {q \in AllPaths(tree) :
                 /\ ~is_state_file(q.name)
                 /\ (file_types.given /\ file_types.exts # {}) =>
                       lower(splitext(q.name)) \in file_types.exts}
       /\ \A a, b \in DOMAIN listing : a # b => listing[a] # listing[b]
       /\ \A a, b \in DOMAIN listing :
             (a < b /\ listing[b].dir = <<>>) => listing[a].dir = <<>>
       /\ ~tree.exists => listing = <<>>
       /\ (/\ Range(tree.files) = {Name(<<"a">>, ".jpg"), Name(<<"b">>, ".txt"),
                                    Name(<<"state", "state">>, ".json")}
           /\ tree.dirs = <<>>
           /\ file_types = Types({".jpg"}))
             => listing = <<Path(<<>>, Name(<<"a">>, ".jpg"))>>
       /\ \A q \in AllPaths(tree) :
             (q.name = Name(<<"c">>, ".JPG") /\ file_types = Types({".jpg"}))
                => q \in Range(listing)
       /\ \A q \in AllPaths(tree) :
             (q.name = Name(<<"c">>, ".JPG") /\ file_types = Types({".JPG"}))
                => q \notin Range(listing)

\* the directory of the example, and a sub-directory with c.JPG: both pictures
\* are listed, the text file and the state file are not
C24_Witness ==
    /\ Listed /\ file_types = Types({".jpg"})
    /\ tree.files = <<Name(<<"a">>, ".jpg"), Name(<<"b">>, ".txt"),
                      Name(<<"state", "state">>, ".json")>>
    /\ tree.dirs = <<Dir(<<Name(<<"c">>, ".JPG")>>, <<>>)>>
    /\ listing = <<Path(<<>>, Name(<<"a">>, ".jpg")), Path(<<1>>, Name(<<"c">>, ".JPG"))>>

\* C25 (as claimed): the uploader or downloader the session switcher starts is
\* started only when a current session exists, and the Telegram client of the
\* transfer is opened on the session file and the credentials of the session
\* the current pointer names.
C25_RunsWithCurrentAccount ==
    (call.op \in {"run_uploader", "run_downloader"} /\ call.kind = "started") =>
       /\ current_session \in DOMAIN sessions
       /\ call.client.session_file = sessions[current_session].session_file
       /\ call.client.api_id = sessions[current_session].api_id

\* the items of the tasks, in their order
TaskItems(ts) == [k \in DOMAIN ts |-> ts[k].item]

\* a batch is joined in this step: its results are collected and the save is called
Joins == saves' = saves + 1

\* C26: the batches are the consecutive chunks of the list: the batch joined
\* after `saves` earlier ones holds the items saves*batch_size+1 .. up to
\* batch_size of them, in input order, and only the last batch may be shorter.
\* An empty list gives no batch, zero counts and no write of the state file; a
\* batch size that is not below the number of items gives one batch with all.
C26_ConsecutiveChunks ==
    /\ [][Joins =>
            /\ TaskItems(tasks) =
                  SubSeq(files, saves * batch_size + 1,
                         IF (saves + 1) * batch_size < Len(files)
                         THEN (saves + 1) * batch_size ELSE Len(files))
            /\ Len(tasks) = batch_size \/ (i = Len(files) /\ Len(tasks) < batch_size)
            /\ Len(tasks) >= 1]_vars
    /\ [][(phase # "idle" /\ disk' # disk) => Joins]_vars
    /\ [](phase = "done" /\ entry = "call" /\ files = <<>> =>
            /\ Completed /\ saves = 0 /\ log = <<>>
            /\ successful_uploads = 0 /\ failed_uploads = 0
            /\ \A x \in Items : attempts[x] = 0)
    /\ [](Completed /\ files # <<>> /\ batch_size >= Len(files) =>
            saves = 1 /\ TaskItems(log) = files)
    /\ [](Completed => TaskItems(log) = files /\ saves = Ceil(Len(files), batch_size))

\* three items with batch size two: the batch <<1, 2>>, then the batch <<3>>
C26_Witness ==
    /\ entry = "call" /\ Completed /\ batch_size = 2 /\ files = <<1, 2, 3>>
    /\ saves = 2 /\ TaskItems(log) = <<1, 2, 3>>

\* the empty list
C26_WitnessEmpty ==
    /\ entry = "call" /\ Completed /\ files = <<>> /\ saves = 0 /\ disk = JsonFile(<<1>>)

\* more room in the batch than items
C26_WitnessSingle ==
    /\ entry = "call" /\ Completed /\ prog = "multi" /\ Len(files) = 3 /\ saves = 1

\* the runner has returned after handling the whole list: one settled task per
\* item, in order, and the save of the last batch done
RunnerFinished ==
    /\ Completed
    /\ TaskItems(log) = files
    /\ \A k \in DOMAIN log : log[k].out \in {"ok", "skip", "fail"}
    /\ saves = Ceil(Len(files), batch_size)
    /\ tasks = <<>>
    /\ \A x \in Items : attempts[x] <= Occurrences(files, x)

\* C27: when every transfer comes back, a run of the batch runner ends: it
\* returns with every item of the list handled once and the last batch saved.
\* And a task takes its first step only when every task of the batches before
\* it has ended, so a transfer that never comes back keeps every later batch
\* from starting.
C27_RunEnds ==
    /\ (phase \in {"idle", "loop", "gather"}) ~> RunnerFinished
    /\ [][\A k \in DOMAIN tasks :
            Begins(k) =>
              /\ Len(log) = i - Len(tasks)
              /\ TaskItems(log) = SubSeq(files, 1, Len(log))
              /\ \A j \in DOMAIN log : log[j].out \in {"ok", "skip", "fail"}]_vars
    /\ [][(i' = i + 1 /\ InFlight(tasks) # {}) => Len(tasks') <= batch_size]_vars
    /\ [](InFlight(tasks) # {} => (phase = "gather" /\ i <= (saves + 1) * batch_size))

\* a download of three messages in two batches, every download_media called
C27_Witness ==
    /\ prog = "downloader" /\ RunnerFinished /\ batch_size = 2 /\ files = <<1, 2, 3>>
    /\ attempts[1] = 1 /\ attempts[2] = 1 /\ attempts[3] = 1 /\ saves = 2

\* no save of this run has failed to leave the store in the file
SavesWentThrough == lastSave \in {"none", "ok"}

\* what the tasks of the batch at work have added to the store
UnsavedMarks == MarkedItems(Outcomes(tasks)) \ (pre \cup MarkedItems(log))

\* the state file holds the store the run began with and what the settled
\* batches have marked (transferred, or skipped as already there)
FileIsSettledBatches ==
    (phase # "idle" /\ entry \in {"main", "call"} /\ SavesWentThrough) =>
       /\ load_state(disk) = pre \cup MarkedItems(log)
       /\ load_state(disk) \cap UnsavedMarks = {}

\* the run at work resumes an interrupted one and has filtered its candidates
Resumed == entry = "main" /\ prev = "interrupted" /\ i = 0

\* C28 (as claimed): while the saves go through, the state file is the store the
\* run began with plus what the settled batches have marked; and the items an
\* interrupted run had marked without saving them are all handed to the batch
\* runner again by the run that resumes it.
C28_ResumeTransfersAgain ==
    /\ FileIsSettledBatches
    /\ Resumed => (lost \cap Range(candidates)) \subseteq Range(files)

\* C28 (amended): while the saves go through, the state file is the store the
\* run began with plus what the settled batches have marked, and it only grows
\* from save to save; a run cut in the middle of a batch leaves in the file
\* nothing of what that batch had marked.  The run that resumes it hands those
\* items to the batch runner again when it is an upload; a download hands
\* again only those whose derived file is not in the folder - the files the cut
\* batch has written keep their messages out of the resumed run.
C28_FileIsSettledBatches ==
    /\ []FileIsSettledBatches
    /\ [][(Joins /\ SavesWentThrough /\ lastSave' = "ok")
            => load_state(disk) \subseteq load_state(disk')]_vars
    /\ [][(ret' = "interrupted" /\ ret # "interrupted" /\ SavesWentThrough)
            => /\ disk' = disk
               /\ load_state(disk') \cap UnsavedMarks = {}]_vars
    /\ []((Resumed /\ Uploader) => (lost \cap Range(candidates)) \subseteq Range(files))
    /\ []((Resumed /\ ~Uploader) =>
            \A m \in lost \cap Range(candidates) :
               m \in Range(files) <=> ~is_file_already_downloaded(m, folder))

\* an upload cut in its second batch after file 3 was sent: the file holds the
\* first batch only and the resumed run has file 3 in its list again
C28_Witness ==
    /\ prog = "uploader" /\ Resumed /\ phase = "loop" /\ batch_size = 2
    /\ candidates = <<1, 2, 3>> /\ load_state(disk) = {1, 2} /\ lost = {3}
    /\ files = <<3>>

\* a download cut after message 3 was written: the resumed run leaves it out
C28_WitnessDownload ==
    /\ prog = "downloader" /\ Resumed /\ 3 \in lost /\ 3 \in Range(candidates)
    /\ 3 \notin Range(files) /\ 3 \notin load_state(disk)

\* the sessions the registry shows as current
CurrentSessions(ss, cur) == {n \in DOMAIN ss : n = cur}

\* C29: whatever add_session, switch_session and remove_session calls are made,
\* from the empty registry or from a loaded one, the current pointer is None or
\* the name of a registered session, at most one session is current, and the
\* same is true of every registry file written.
C29_PointerIsRegistered ==
    /\ current_session = "None" \/ current_session \in DOMAIN sessions
    /\ Cardinality(CurrentSessions(sessions, current_session)) <= 1
    /\ current_session # "None" =>
          Cardinality(CurrentSessions(sessions, current_session)) = 1
    /\ config.current_session = "None"
          \/ config.current_session \in DOMAIN config.sessions

\* y was made current and then removed while x, current before it, stays
C29_Witness ==
    /\ call.op = "remove" /\ call.kind = "removed" /\ call.name = "y"
    /\ current_session = "None" /\ DOMAIN sessions = {"x"}
    /\ sessions["x"].last_used = 1 /\ clock = 2

\* C30 (as claimed): at the end of a download run download_media has been
\* called for every message of the list handed to download_in_batches - none of
\* them had its derived file in the folder when the run began: main has filtered
\* those out, and a direct call starts on the empty folder - and every id the
\* run has added to the store is the id of a message whose own download went
\* through, also when two messages of the list derive the same file name.
C30_EveryListedMessageDownloaded ==
    (prog = "downloader" /\ Completed) =>
       /\ \A m \in Range(files) : attempts[m] >= 1
       /\ \A m \in store \ pre : m \in OkItems(log)

====
